---- MODULE Spec2Model ----
(***************************************************************************)
(* btfd: a dip-buying ladder of limit buy orders, re-priced periodically.  *)
(* One worker thread per configured strategy (run_strategy), started by    *)
(* main with a staggered delay, all sharing one shutdown flag.             *)
(*                                                                         *)
(* Decimal values are modelled as exact rationals <<n, d>> with d > 0.     *)
(* Strings that are parsed (RESTRUCTURE_TIME) are sequences of one-        *)
(* character strings.  Time is a global integer clock of seconds.          *)
(***************************************************************************)
EXTENDS Integers, Sequences, FiniteSets, TLC

\* ------------------------------------------------------------------------
\* Bounds of the model
\* ------------------------------------------------------------------------
MaxTime == 11
MaxCycles == 2
MaxSignals == 1
\* the longest a cycle's Gateway calls take altogether
MaxCycleTime == 1
\* how many close_order and place_buy_order calls of one worker the
\* exchange rejects
MaxRejects == 1

\* ------------------------------------------------------------------------
\* Program constants
\* ------------------------------------------------------------------------
\* time.sleep(1) in the due check
POLL == 1
\* time.sleep(10) between two thread starts
STAGGER == 10

\* BACKENDS = {'valr': VALR_API, 'luno': LUNO_API}
BACKENDS == {"valr", "luno"}

\* ------------------------------------------------------------------------
\* get_time_in_seconds
\* ------------------------------------------------------------------------
DigitChars == {"0", "1", "2", "3", "4", "5", "6", "7", "8", "9"}

DigitVal(c) ==
    CASE c = "0" -> 0 [] c = "1" -> 1 [] c = "2" -> 2 [] c = "3" -> 3
      [] c = "4" -> 4 [] c = "5" -> 5 [] c = "6" -> 6 [] c = "7" -> 7
      [] c = "8" -> 8 [] c = "9" -> 9

\* the character class [h|m|s|d] of td_re: the bar is a member of the class
UnitChars == {"h", "|", "m", "s", "d"}

unit_map == [u \in {"s", "m", "h", "d"} |->
    CASE u = "s" -> 1 [] u = "m" -> 60 [] u = "h" -> 60 * 60 [] u = "d" -> 24 * 60 * 60]

RECURSIVE LeadingDigits(_)
\* length of the longest prefix of str made of digits: the greedy (^[0-9]+)
LeadingDigits(str) ==
    IF str = <<>> \/ Head(str) \notin DigitChars THEN 0
    ELSE 1 + LeadingDigits(Tail(str))

RECURSIVE int(_)
\* int(num) of a sequence of digits
int(num) ==
    IF num = <<>> THEN 0
    ELSE 10 * int(SubSeq(num, 1, Len(num) - 1)) + DigitVal(num[Len(num)])

\* a match that has to cover the whole string (fullmatch)
td_re_match_whole(input_str) ==
    LET n == LeadingDigits(input_str) IN
    IF n >= 1 /\ Len(input_str) = n + 1 /\ input_str[n + 1] \in UnitChars
    THEN << <<SubSeq(input_str, 1, n), input_str[n + 1]>> >>
    ELSE <<>>

\* td_re.match(input_str): <<>> for None, else <<groups>>
td_re_match(input_str) ==
    LET n == LeadingDigits(input_str) IN
    IF n >= 1 /\ Len(input_str) > n /\ input_str[n + 1] \in UnitChars
    THEN << <<SubSeq(input_str, 1, n), input_str[n + 1]>> >>
    ELSE <<>>

\* [raised |-> TRUE] when the call raises: None.groups() is an
\* AttributeError, unit_map[unit] of the bar a KeyError; value is the
\* result of a call that returns
get_time_in_seconds(input_str) ==
    LET m == td_re_match(input_str) IN
    IF m = <<>> THEN [raised |-> TRUE, error |-> "AttributeError", value |-> 0]
    ELSE IF m[1][2] \notin DOMAIN unit_map
    THEN [raised |-> TRUE, error |-> "KeyError", value |-> 0]
    ELSE [raised |-> FALSE, error |-> "", value |-> int(m[1][1]) * unit_map[m[1][2]]]

\* ------------------------------------------------------------------------
\* Decimal arithmetic: exact rationals <<n, d>>, d > 0, in lowest terms
\* ------------------------------------------------------------------------
Abs(n) == IF n < 0 THEN 0 - n ELSE n

RECURSIVE GCD(_, _)
GCD(a, b) == IF b = 0 THEN a ELSE GCD(b, a % b)

Rat(n, d) ==
    LET s == IF d < 0 THEN 0 - 1 ELSE 1
        g == GCD(Abs(n), Abs(d))
    IN  <<(s * n) \div g, (s * d) \div g>>

Dec(n) == <<n, 1>>
RAdd(a, b) == Rat(a[1] * b[2] + b[1] * a[2], a[2] * b[2])
RSub(a, b) == Rat(a[1] * b[2] - b[1] * a[2], a[2] * b[2])
RMul(a, b) == Rat(a[1] * b[1], a[2] * b[2])
\* defined for b # 0 only; the callers raise on a zero divisor
RDiv(a, b) == Rat(a[1] * b[2], a[2] * b[1])
RLess(a, b) == a[1] * b[2] < b[1] * a[2]
RLeq(a, b) == a[1] * b[2] <= b[1] * a[2]
\* math.floor
Floor(a) == a[1] \div a[2]

RECURSIVE Pow10(_)
Pow10(k) == IF k = 0 THEN 1 ELSE 10 * Pow10(k - 1)

RECURSIVE RPow(_, _)
RPow(a, k) == IF k = 0 THEN Dec(1) ELSE RMul(a, RPow(a, k - 1))

RECURSIVE RSum(_)
RSum(seq) == IF seq = <<>> THEN Dec(0) ELSE RAdd(Head(seq), RSum(Tail(seq)))

\* round(x) of a Decimal: nearest integer, ties to the even one
round(a) ==
    LET f == Floor(a)
        twice == RSub(RMul(Dec(2), a), Dec(2 * f))   \* 2 * (a - f), in [0, 2)
    IN  IF RLess(twice, Dec(1)) THEN f
        ELSE IF RLess(Dec(1), twice) THEN f + 1
        ELSE IF f % 2 = 0 THEN f ELSE f + 1

\* round(x, 2) of a Decimal: two places, ties to even
round2(a) == Rat(round(RMul(a, Dec(100))), 100)

\* ------------------------------------------------------------------------
\* int / int: the float nearest to k / d (round to nearest, ties to even,
\* 53 bits).  Only the direction of the rounding is needed, and it is
\* computed on residues, so that no number grows beyond 4 * d.
\* ------------------------------------------------------------------------
\* the size of the significand of a float
MANTISSA == 53

RECURSIVE Pow2Mod(_, _)
\* 2^e modulo m
Pow2Mod(e, m) == IF e = 0 THEN 1 % m ELSE (2 * Pow2Mod(e - 1, m)) % m

RECURSIVE ShiftsUp(_, _)
\* for k < d: the least j with k * 2^j >= d
ShiftsUp(k, d) == IF k >= d THEN 0 ELSE 1 + ShiftsUp(2 * k, d)

RECURSIVE ShiftsDown(_, _)
\* for k >= d: the greatest j with d * 2^j <= k
ShiftsDown(k, d) == IF 2 * d > k THEN 0 ELSE 1 + ShiftsDown(k, 2 * d)

\* -1, 0 or 1: whether the float k / d is below, equal to or above the
\* rational k / d, for k >= 0 and d >= 1 with k / d < 2^(MANTISSA - 1)
TrueDivError(k, d) ==
    IF k = 0 THEN 0
    ELSE LET e == IF k >= d THEN (MANTISSA - 1) - ShiftsDown(k, d)
                  ELSE (MANTISSA - 1) + ShiftsUp(k, d)
             \* k * 2^e = q * d + r with q of MANTISSA bits
             R == ((k % (2 * d)) * Pow2Mod(e, 2 * d)) % (2 * d)
             odd == R >= d
             r == R % d
         IN  IF r = 0 THEN 0
             ELSE IF 2 * r < d THEN 0 - 1
             ELSE IF 2 * r > d THEN 1
             ELSE IF odd THEN 1 ELSE 0 - 1

\* ------------------------------------------------------------------------
\* calculate_position_sizing
\* ------------------------------------------------------------------------
\* weights that grow by a fixed amount per level (1, 2, 3, ...) instead of
\* by a fixed ratio
calculate_position_sizing_linear(balance, no_of_levels, iceberg_multiple) ==
    LET levels == [i \in 1..no_of_levels |-> Dec(i)]
        total_position_weights == RSum(levels)
    IN  IF total_position_weights[1] = 0
        THEN [raised |-> TRUE, value |-> <<>>]
        ELSE LET position_size == RDiv(balance, total_position_weights)
             IN  [raised |-> FALSE,
                  value |-> [i \in 1..no_of_levels |-> RMul(levels[i], position_size)]]

calculate_position_sizing(balance, no_of_levels, iceberg_multiple) ==
    LET levels == [i \in 1..no_of_levels |-> RPow(iceberg_multiple, i - 1)]
        total_position_weights == RSum(levels)
    IN  IF total_position_weights[1] = 0
        THEN [raised |-> TRUE, value |-> <<>>]
        ELSE LET position_size == RDiv(balance, total_position_weights)
             IN  [raised |-> FALSE,
                  value |-> [i \in 1..no_of_levels |-> RMul(levels[i], position_size)]]

\* ------------------------------------------------------------------------
\* The pricing and building computations of one cycle of run_strategy
\* ------------------------------------------------------------------------
\* history_ohlc.insert(0, {...}) with the candle made of the market summary
WithToday(history_ohlc, market_summary) ==
    << [high  |-> market_summary.highPrice,
        close |-> market_summary.lastTradedPrice,
        open  |-> market_summary.lastTradedPrice,
        low   |-> market_summary.lowPrice] >> \o history_ohlc

\* (high + low + close + open) / 4 of one day
DayMid(day) == RDiv(RAdd(RAdd(RAdd(day.high, day.low), day.close), day.open), Dec(4))

\* avg_ohlc_price after the rounding and the clamp against lastTradedPrice
BasePrice(history_ohlc, market_summary) ==
    LET days == WithToday(history_ohlc, market_summary)
        last_traded_price == market_summary.lastTradedPrice
        avg_ohlc_price ==
            round(RDiv(RSum([k \in 1..Len(days) |-> DayMid(days[k])]), Dec(Len(days))))
    IN  IF RLeq(last_traded_price, Dec(avg_ohlc_price))
        THEN round(RMul(Rat(99, 100), last_traded_price))
        ELSE avg_ohlc_price

\* step_value = math.floor(avg_ohlc_price * (level_step_perc / 100))
StepValue(avg_ohlc_price, level_step_perc) ==
    Floor(RMul(Dec(avg_ohlc_price), RDiv(level_step_perc, Dec(100))))

\* a ladder whose prices rise with the depth
Positions_rising(avg_ohlc_price, level_step_perc, position_sizes, no_of_levels) ==
    LET step_value == StepValue(avg_ohlc_price, level_step_perc) IN
    [i \in 1..no_of_levels |->
        [price |-> avg_ohlc_price + (i - 1) * step_value,
         size  |-> position_sizes[i]]]

\* positions = [[avg_ohlc_price - i * step_value, position_sizes[i]] ...]
Positions(avg_ohlc_price, level_step_perc, position_sizes, no_of_levels) ==
    LET step_value == StepValue(avg_ohlc_price, level_step_perc) IN
    [i \in 1..no_of_levels |->
        [price |-> avg_ohlc_price - (i - 1) * step_value,
         size  |-> position_sizes[i]]]

\* a truncation that rounds to the nearest step instead of rounding down
Quantity_nearest(size, price, quantity_precision) ==
    IF price = 0 THEN [raised |-> TRUE, value |-> Dec(0), error |-> 0]
    ELSE LET units == round(RMul(RDiv(size, Dec(price)), Dec(Pow10(quantity_precision))))
         IN  [raised |-> FALSE,
              value |-> Rat(units, Pow10(quantity_precision)),
              error |-> 0]

\* quantity = math.floor(size/price * 10**precision) / 10**precision;
\* size/price raises when price is zero.  quantity is a float: value is the
\* decimal str(quantity) denotes (units / 10**precision), error tells on
\* which side of it the float lies
Quantity(size, price, quantity_precision) ==
    IF price = 0 THEN [raised |-> TRUE, value |-> Dec(0), error |-> 0]
    ELSE LET units == Floor(RMul(RDiv(size, Dec(price)), Dec(Pow10(quantity_precision))))
             side == TrueDivError(Abs(units), Pow10(quantity_precision))
         IN  [raised |-> FALSE,
              value |-> Rat(units, Pow10(quantity_precision)),
              error |-> IF units < 0 THEN 0 - side ELSE side]

\* a filter that lets every level through
TooSmall_never(quantity, min_order_size) == FALSE

\* quantity < Decimal(backend.min_order_size): the float is compared by its
\* exact value (min_order_size has far fewer digits than a float resolves)
TooSmall(quantity, min_order_size) ==
    \/ RLess(quantity.value, min_order_size)
    \/ RLeq(quantity.value, min_order_size) /\ quantity.error < 0

\* the placing loop on its own: what becomes of each level of the ladder.
\* A level is "placed" (passed to place_buy_order), "skipped" (too small),
\* "raised" (the division fails) or "not reached" (an earlier level raised)
Ladder(avg_ohlc_price, position_sizes, bk) ==
    LET ladder == Positions(avg_ohlc_price, bk.level_step_perc, position_sizes,
                            bk.no_of_levels)
        quantity(i) == Quantity(ladder[i].size, ladder[i].price, bk.quantity_precision)
    IN  [i \in 1..bk.no_of_levels |->
            [price |-> ladder[i].price,
             size |-> ladder[i].size,
             quantity |-> quantity(i).value,
             fate |-> IF \E j \in 1..(i - 1) : quantity(j).raised THEN "not reached"
                      ELSE IF quantity(i).raised THEN "raised"
                      ELSE IF TooSmall(quantity(i), bk.min_order_size) THEN "skipped"
                      ELSE "placed"]]

\* ------------------------------------------------------------------------
\* Configuration and the backend objects
\* ------------------------------------------------------------------------
\* one section of config.ini
SectionOf(backend_name, restructure_time, levels, step, minimum, precision, multiple, limit) ==
    [BACKEND |-> backend_name,
     RESTRUCTURE_TIME |-> restructure_time,
     FIAT_CURRENCY_CODE |-> "ZAR",
     CRYPTO_CURRENCY_CODE |-> "BTC",
     ICEBERG_LEVELS |-> levels,
     LEVEL_STEP_PERCENTAGE |-> step,
     MINIMUM_ORDER_SIZE |-> minimum,
     QUANTITY_PRECISION |-> precision,
     ICEBERG_MULTIPLE |-> multiple,
     BALANCE_LIMIT |-> limit]

\* a section with a step of 5 %, a minimum order of 0.01, two decimals of
\* quantity, a multiple of 2 and the whole balance
Section(backend_name, restructure_time, levels) ==
    SectionOf(backend_name, restructure_time, levels, Dec(5), Rat(1, 100), 2,
              Dec(2), Dec(1))

\* VALR_API.__init__ / LUNO_API.__init__: the attributes of a backend
Backend(section) ==
    [name |-> section.BACKEND,
     sleep_duration |-> section.RESTRUCTURE_TIME,
     fiat_currency_code |-> section.FIAT_CURRENCY_CODE,
     crypto_currency_code |-> section.CRYPTO_CURRENCY_CODE,
     no_of_levels |-> section.ICEBERG_LEVELS,
     level_step_perc |-> section.LEVEL_STEP_PERCENTAGE,
     min_order_size |-> section.MINIMUM_ORDER_SIZE,
     quantity_precision |-> section.QUANTITY_PRECISION,
     iceberg_multiple |-> section.ICEBERG_MULTIPLE,
     balance_limit |-> section.BALANCE_LIMIT]

get_pair(backend) == backend.crypto_currency_code \o backend.fiat_currency_code

\* the fiat entry of the account as the exchange reports it
get_usable_fiat_balance(backend, account) ==
    IF backend.name = "valr"
    THEN RMul(account.total, backend.balance_limit)
    ELSE RSub(RMul(backend.balance_limit, account.total), account.reserved)

\* a listing that is not filtered by pair
OpenOrderIdSet_all(orders, pair) == {o.id : o \in orders}

\* get_all_open_order_ids(pair): the ids of the open orders, of the pair
\* only when pair is not empty (if pair:)
OpenOrderIdSet(orders, pair) ==
    IF pair = "" THEN {o.id : o \in orders}
    ELSE {o.id : o \in {x \in orders : x.pair = pair}}

RECURSIVE IdList(_)
\* the ids in the order the exchange lists them (oldest first)
IdList(ids) ==
    IF ids = {} THEN <<>>
    ELSE LET first == CHOOSE a \in ids :
                 \A b \in ids : a[1] < b[1] \/ (a[1] = b[1] /\ a[2] <= b[2])
         IN  <<first>> \o IdList(ids \ {first})

\* a listing that answers with its first order only
get_all_open_order_ids_first(orders, pair) ==
    LET ids == IdList(OpenOrderIdSet(orders, pair)) IN
    IF ids = <<>> THEN <<>> ELSE <<Head(ids)>>

get_all_open_order_ids(orders, pair) == IdList(OpenOrderIdSet(orders, pair))

\* a Gateway that fetches the candles once and hands out the list the
\* worker already holds from then on
get_daily_ohlc_kept(held, candles) == IF held = <<>> THEN candles ELSE held

\* history_ohlc = backend.get_daily_ohlc(...): whatever list the worker
\* holds is replaced by a new list made of the response
get_daily_ohlc(held, candles) == candles

\* ------------------------------------------------------------------------
\* Inputs: the configurations and what the exchange can answer
\* ------------------------------------------------------------------------
BadTimeSpec == <<"2", "x">>

\* one strategy with a ladder of two levels; two strategies; a section with
\* an unknown backend before a good one; a section with a malformed
\* RESTRUCTURE_TIME before a good one
Configs ==
    { <<Section("valr", <<"3", "s">>, 2)>>,
      <<Section("valr", <<"1", "0", "s">>, 1), Section("luno", <<"1", "m">>, 1)>>,
      <<Section("kraken", <<"2", "s">>, 1), Section("valr", <<"2", "s">>, 1)>>,
      <<Section("valr", BadTimeSpec, 1), Section("luno", <<"2", "s">>, 1)>> }

Accounts == { [total |-> Dec(1000), reserved |-> Dec(0)] }

Candle(h, l, c, o) == [high |-> Dec(h), low |-> Dec(l), close |-> Dec(c), open |-> Dec(o)]
Histories == { <<Candle(104, 96, 100, 100)>> }
Summaries == { [created |-> 0, highPrice |-> Dec(110), lowPrice |-> Dec(90),
                lastTradedPrice |-> Dec(104)] }

\* what the exchange answers to the reads of a cycle
DefaultExchange ==
    [accounts |-> Accounts, histories |-> Histories, summaries |-> Summaries]

\* no function is being applied on its own
NoProbe == [fn |-> "none", args |-> <<>>, out |-> <<>>]

\* orders already open on the account when the process starts
InitialOrders ==
    { [id |-> <<0, 1>>, pair |-> "BTCZAR", price |-> 90, quantity |-> Dec(1)],
      [id |-> <<0, 2>>, pair |-> "ETHZAR", price |-> 50, quantity |-> Dec(1)] }

\* ------------------------------------------------------------------------
\* State
\* ------------------------------------------------------------------------
VARIABLES
    config,                 \* the sections of config.ini, in file order
    exchange,               \* the answers the exchange can give to the reads
    probe,                  \* a function applied on its own: arguments, result
    prev_calls,             \* what the previous cycle of each worker has done
    now,                    \* time.time()
    shutdown_flag,          \* threading.Event
    mpc,                    \* where the main thread is
    next_section,           \* the index of the for loop of main
    threads,                \* the list threads of main
    joined,                 \* how many threads the join loop has joined
    main_wake,              \* when the time.sleep(10) of main returns
    signals,                \* how many signals have been delivered
    pc,                     \* where each worker is in run_strategy
    sleep_duration_seconds, \* locals of run_strategy, per worker
    pair,
    last_run_ts,            \* <<>> for None, <<t>> otherwise
    wake,                   \* when the time.sleep(1) of the worker returns
    order_ids,
    position_sizes,
    history_ohlc,
    market_summary,         \* <<>> while unset, <<summary>> otherwise
    positions,
    open_orders,            \* the orders open on the account of each backend
    calls,                  \* what the current cycle has done so far
    cycles,                 \* completed cycles per worker
    cycle_starts,           \* the times at which the cycles passed the due check
    honoured,               \* no close or place of the cycle was rejected
    rejects,                \* rejected close and place calls per worker
    failure,                \* <<call, time>> of the exception that ended the worker
    flag_set_at             \* <<t>> once the shutdown flag has been set at time t

\* what a run is given and never changes
inputVars == <<config, exchange, probe>>
mainVars == <<mpc, next_section, threads, joined, main_wake>>
localVars == <<sleep_duration_seconds, pair, order_ids, position_sizes,
               history_ohlc, market_summary, positions>>
histVars == <<calls, cycle_starts, honoured, rejects, failure>>
vars == <<inputVars, prev_calls, now, shutdown_flag, mainVars, signals, pc, last_run_ts, wake,
          localVars, open_orders, cycles, histVars, flag_set_at>>

Workers == DOMAIN config
backend(w) == Backend(config[w])

Finished(w) == pc[w] \in {"unstarted", "stopped", "crashed"}
Alive == mpc # "exited"

InitWith(cfg, answers, applied) ==
    /\ config = cfg
    /\ exchange = answers
    /\ probe = applied
    /\ prev_calls = [w \in DOMAIN cfg |-> <<>>]
    /\ now = 0
    /\ shutdown_flag = FALSE
    /\ mpc = "for"
    /\ next_section = 1
    /\ threads = <<>>
    /\ joined = 0
    /\ main_wake = 0
    /\ signals = 0
    /\ pc = [w \in DOMAIN cfg |-> "unstarted"]
    /\ sleep_duration_seconds = [w \in DOMAIN cfg |-> 0]
    /\ pair = [w \in DOMAIN cfg |-> ""]
    /\ last_run_ts = [w \in DOMAIN cfg |-> <<>>]
    /\ wake = [w \in DOMAIN cfg |-> 0]
    /\ order_ids = [w \in DOMAIN cfg |-> <<>>]
    /\ position_sizes = [w \in DOMAIN cfg |-> <<>>]
    /\ history_ohlc = [w \in DOMAIN cfg |-> <<>>]
    /\ market_summary = [w \in DOMAIN cfg |-> <<>>]
    /\ positions = [w \in DOMAIN cfg |-> <<>>]
    /\ open_orders = [w \in DOMAIN cfg |-> InitialOrders]
    /\ calls = [w \in DOMAIN cfg |-> <<>>]
    /\ cycles = [w \in DOMAIN cfg |-> 0]
    /\ cycle_starts = [w \in DOMAIN cfg |-> <<>>]
    /\ honoured = [w \in DOMAIN cfg |-> TRUE]
    /\ rejects = [w \in DOMAIN cfg |-> 0]
    /\ failure = [w \in DOMAIN cfg |-> <<>>]
    /\ flag_set_at = <<>>

Init == \E cfg \in Configs : InitWith(cfg, DefaultExchange, NoProbe)

\* ------------------------------------------------------------------------
\* main
\* ------------------------------------------------------------------------
\* one iteration of the for loop up to t.start(); an unknown backend raises
\* Exception, which leaves main through logger.catch
MainStartNext ==
    /\ mpc = "for"
    /\ IF next_section > Len(config)
       THEN /\ mpc' = "returned"
            /\ UNCHANGED <<next_section, threads, main_wake, pc>>
       ELSE IF config[next_section].BACKEND \notin BACKENDS
       THEN /\ mpc' = "returned"
            /\ UNCHANGED <<next_section, threads, main_wake, pc>>
       ELSE /\ threads' = Append(threads, next_section)
            /\ pc' = [pc EXCEPT ![next_section] = "entry"]
            /\ next_section' = next_section + 1
            /\ main_wake' = now + STAGGER
            /\ mpc' = "sleep10"
    /\ UNCHANGED <<inputVars, prev_calls, flag_set_at, now, shutdown_flag, joined, signals, last_run_ts, wake,
                   localVars, open_orders, cycles, histVars>>

\* time.sleep(10) returns
MainWake ==
    /\ mpc = "sleep10"
    /\ now >= main_wake
    /\ mpc' = "for"
    /\ UNCHANGED <<inputVars, prev_calls, flag_set_at, now, shutdown_flag, next_section, threads, joined,
                   main_wake, signals, pc, last_run_ts, wake, localVars,
                   open_orders, cycles, histVars>>

\* for t in threads: t.join(), inside the except Shutdown block
MainJoin ==
    /\ mpc = "joining"
    /\ IF joined = Len(threads)
       THEN mpc' = "returned" /\ joined' = joined
       ELSE /\ pc[threads[joined + 1]] \in {"stopped", "crashed"}
            /\ joined' = joined + 1
            /\ mpc' = mpc
    /\ UNCHANGED <<inputVars, prev_calls, flag_set_at, now, shutdown_flag, next_section, threads, main_wake,
                   signals, pc, last_run_ts, wake, localVars, open_orders, cycles,
                   histVars>>

\* after main has returned the interpreter waits for the worker threads
\* (they are not daemon threads) and then the process ends
ProcessExit ==
    /\ mpc = "returned"
    /\ \A w \in Workers : Finished(w)
    /\ mpc' = "exited"
    /\ UNCHANGED <<inputVars, prev_calls, flag_set_at, now, shutdown_flag, next_section, threads, joined,
                   main_wake, signals, pc, last_run_ts, wake, localVars,
                   open_orders, cycles, histVars>>

\* where the Shutdown raised by sigterm_handler takes the main thread
AfterSignal(at) ==
    CASE at \in {"for", "sleep10"} -> [mpc |-> "joining", set |-> TRUE]
      [] at = "joining" -> [mpc |-> "returned", set |-> FALSE]
      [] OTHER -> [mpc |-> "exited", set |-> FALSE]

\* SIGTERM or SIGINT: sigterm_handler raises Shutdown in the main thread
Signal ==
    /\ Alive
    /\ signals < MaxSignals
    /\ signals' = signals + 1
    /\ mpc' = AfterSignal(mpc).mpc
    /\ shutdown_flag' = (shutdown_flag \/ AfterSignal(mpc).set)
    /\ flag_set_at' = IF AfterSignal(mpc).set /\ ~shutdown_flag THEN <<now>>
                      ELSE flag_set_at
    /\ joined' = IF mpc \in {"for", "sleep10"} THEN 0 ELSE joined
    /\ UNCHANGED <<inputVars, prev_calls, now, next_section, threads, main_wake, pc, last_run_ts,
                   wake, localVars, open_orders, cycles, histVars>>

\* ------------------------------------------------------------------------
\* run_strategy
\* ------------------------------------------------------------------------
\* what a Gateway call can do: answer, answer with an error payload (the
\* non-2xx response is logged by make_request), or raise (transport error)
Outcomes == {"ok", "rejected", "raise"}

\* an exception that takes every running thread down
logger_catch_all(pcs, w) ==
    [v \in DOMAIN pcs |-> IF pcs[v] = "unstarted" THEN "unstarted" ELSE "crashed"]

\* @logger.catch on run_strategy: the exception ends this thread only
logger_catch(pcs, w) == [pcs EXCEPT ![w] = "crashed"]

\* a loop body that reads the prices before it sizes the positions
PhaseAfter_priceFirst(phase) ==
    CASE phase = "list_orders" -> "closing"
      [] phase = "closing" -> "ohlc"
      [] phase = "ohlc" -> "summary"
      [] phase = "summary" -> "balance"
      [] phase = "balance" -> "build"
      [] phase = "build" -> "placing"
      [] phase = "placing" -> "record"
      [] phase = "record" -> "loop_top"

\* a loop body that looks at the shutdown flag between two statements
PhaseAfter_checksFlag(phase) ==
    IF shutdown_flag THEN "loop_top"
    ELSE CASE phase = "list_orders" -> "closing"
           [] phase = "closing" -> "balance"
           [] phase = "balance" -> "ohlc"
           [] phase = "ohlc" -> "summary"
           [] phase = "summary" -> "build"
           [] phase = "build" -> "placing"
           [] phase = "placing" -> "record"
           [] phase = "record" -> "loop_top"

\* the order of the statements of the loop body
PhaseAfter(phase) ==
    CASE phase = "list_orders" -> "closing"
      [] phase = "closing" -> "balance"
      [] phase = "balance" -> "ohlc"
      [] phase = "ohlc" -> "summary"
      [] phase = "summary" -> "build"
      [] phase = "build" -> "placing"
      [] phase = "placing" -> "record"
      [] phase = "record" -> "loop_top"

\* a due check that sleeps one more second: <= instead of <
Due_late(ts, t, duration) == ts = <<>> \/ ~(t - ts[1] <= duration)

\* the due check: last_run_ts is None or the delta is not below the duration
Due(ts, t, duration) == ts = <<>> \/ ~(t - ts[1] < duration)

\* while not shutdown_flag.is_set(): ... sleep(1); continue
LoopTopTarget(flag, ts, t, duration) ==
    IF flag THEN "stopped"
    ELSE IF Due(ts, t, duration) THEN "list_orders"
    ELSE "sleeping"

\* one sleep of the whole duration instead of the one second poll
SleepUntil_whole(t, duration) == t + duration

\* time.sleep(1): when the worker looks at the flag again
SleepUntil(t, duration) == t + POLL

Log(w, op, arg) == [calls EXCEPT ![w] = Append(@, [op |-> op, arg |-> arg])]

\* the exception of a call leaves run_strategy
Raise(w, op) ==
    /\ pc' = logger_catch(pc, w)
    /\ failure' = [failure EXCEPT ![w] = <<op, now>>]

\* lines 52-55: parse the sleep duration, read the pair
Entry(w) ==
    /\ Alive /\ pc[w] = "entry"
    /\ LET r == get_time_in_seconds(backend(w).sleep_duration) IN
       IF r.raised
       THEN /\ Raise(w, "get_time_in_seconds")
            /\ UNCHANGED <<sleep_duration_seconds, pair>>
       ELSE /\ sleep_duration_seconds' = [sleep_duration_seconds EXCEPT ![w] = r.value]
            /\ pair' = [pair EXCEPT ![w] = get_pair(backend(w))]
            /\ pc' = [pc EXCEPT ![w] = "loop_top"]
            /\ UNCHANGED failure
    /\ UNCHANGED <<inputVars, prev_calls, flag_set_at, now, shutdown_flag, mainVars, signals, last_run_ts, wake,
                   order_ids, position_sizes, history_ohlc, market_summary,
                   positions, open_orders, cycles, calls, cycle_starts, honoured, rejects>>

\* lines 57-63: the loop condition and the due check
LoopTop(w) ==
    /\ Alive /\ pc[w] = "loop_top"
    /\ LET target == LoopTopTarget(shutdown_flag, last_run_ts[w], now,
                                   sleep_duration_seconds[w]) IN
       /\ target = "list_orders" => cycles[w] < MaxCycles
       /\ pc' = [pc EXCEPT ![w] = target]
       /\ wake' = [wake EXCEPT ![w] = IF target = "sleeping"
                              THEN SleepUntil(now, sleep_duration_seconds[w]) ELSE @]
       /\ calls' = [calls EXCEPT ![w] = IF target = "list_orders" THEN <<>> ELSE @]
       /\ prev_calls' = [prev_calls EXCEPT ![w] =
                            IF target = "list_orders" THEN calls[w] ELSE @]
       /\ honoured' = [honoured EXCEPT ![w] = IF target = "list_orders" THEN TRUE ELSE @]
       /\ cycle_starts' = [cycle_starts EXCEPT ![w] =
                              IF target = "list_orders" THEN Append(@, now) ELSE @]
    /\ UNCHANGED <<inputVars, flag_set_at, now, shutdown_flag, mainVars,
                   signals, last_run_ts, localVars, open_orders, cycles, rejects,
                   failure>>

\* time.sleep(1) returns; continue
WakeUp(w) ==
    /\ Alive /\ pc[w] = "sleeping"
    /\ now >= wake[w]
    /\ pc' = [pc EXCEPT ![w] = "loop_top"]
    /\ UNCHANGED <<inputVars, prev_calls, flag_set_at, now, shutdown_flag, mainVars, signals, last_run_ts, wake,
                   localVars, open_orders, cycles, histVars>>

\* line 66: order_ids = backend.get_all_open_order_ids(pair)
ListOrders(w) ==
    /\ Alive /\ pc[w] = "list_orders"
    /\ \E outcome \in Outcomes :
       IF outcome = "ok"
       THEN LET ids == get_all_open_order_ids(open_orders[w], pair[w]) IN
            /\ order_ids' = [order_ids EXCEPT ![w] = ids]
            /\ calls' = Log(w, "get_all_open_order_ids", <<pair[w], ids>>)
            /\ pc' = [pc EXCEPT ![w] = IF ids = <<>> THEN PhaseAfter("closing")
                                       ELSE PhaseAfter("list_orders")]
            /\ UNCHANGED failure
       ELSE /\ Raise(w, "get_all_open_order_ids")
            /\ UNCHANGED <<order_ids, calls>>
    /\ UNCHANGED <<inputVars, prev_calls, flag_set_at, now, shutdown_flag, mainVars, signals, last_run_ts, wake,
                   sleep_duration_seconds, pair, position_sizes, history_ohlc,
                   market_summary, positions, open_orders, cycles, cycle_starts,
                   honoured, rejects>>

\* lines 67-69: one iteration of the for loop over order_ids
CloseOrder(w) ==
    /\ Alive /\ pc[w] = "closing"
    /\ LET order_id == Head(order_ids[w]) IN
       \E outcome \in Outcomes :
       /\ outcome = "rejected" => rejects[w] < MaxRejects
       /\ rejects' = [rejects EXCEPT ![w] = IF outcome = "rejected" THEN @ + 1 ELSE @]
       /\ IF outcome = "raise"
          THEN /\ Raise(w, "close_order")
               /\ UNCHANGED <<order_ids, calls, open_orders, honoured>>
          ELSE /\ order_ids' = [order_ids EXCEPT ![w] = Tail(@)]
               /\ calls' = Log(w, "close_order", <<pair[w], order_id>>)
               /\ open_orders' = [open_orders EXCEPT ![w] =
                                     IF outcome = "ok"
                                     THEN {o \in @ : o.id # order_id} ELSE @]
               /\ honoured' = [honoured EXCEPT ![w] = @ /\ outcome = "ok"]
               /\ pc' = [pc EXCEPT ![w] = IF Tail(order_ids[w]) = <<>>
                                          THEN PhaseAfter("closing") ELSE "closing"]
               /\ UNCHANGED failure
    /\ UNCHANGED <<inputVars, prev_calls, flag_set_at, now, shutdown_flag, mainVars, signals, last_run_ts, wake,
                   sleep_duration_seconds, pair, position_sizes, history_ohlc,
                   market_summary, positions, cycles, cycle_starts>>

\* lines 72-73: the usable balance and the position sizes
ReadBalance(w) ==
    /\ Alive /\ pc[w] = "balance"
    /\ \E outcome \in Outcomes, account \in exchange.accounts :
       LET usable == get_usable_fiat_balance(backend(w), account)
           balance == round2(usable)
           sizes == calculate_position_sizing(balance, backend(w).no_of_levels,
                                              backend(w).iceberg_multiple)
       IN  IF outcome = "ok" /\ ~sizes.raised
           THEN /\ position_sizes' = [position_sizes EXCEPT ![w] = sizes.value]
                /\ calls' = Log(w, "get_usable_fiat_balance", <<balance, usable>>)
                /\ pc' = [pc EXCEPT ![w] = PhaseAfter("balance")]
                /\ UNCHANGED failure
           ELSE /\ Raise(w, IF outcome = "ok" THEN "calculate_position_sizing"
                            ELSE "get_usable_fiat_balance")
                /\ UNCHANGED <<position_sizes, calls>>
    /\ UNCHANGED <<inputVars, prev_calls, flag_set_at, now, shutdown_flag, mainVars, signals, last_run_ts, wake,
                   sleep_duration_seconds, pair, order_ids, history_ohlc,
                   market_summary, positions, open_orders, cycles, cycle_starts,
                   honoured, rejects>>

\* lines 74-76: history_ohlc = backend.get_daily_ohlc(...)
ReadOhlc(w) ==
    /\ Alive /\ pc[w] = "ohlc"
    /\ \E outcome \in Outcomes, history \in exchange.histories :
       IF outcome = "ok"
       THEN /\ history_ohlc' = [history_ohlc EXCEPT ![w] = get_daily_ohlc(@, history)]
            /\ calls' = Log(w, "get_daily_ohlc", <<pair[w], history>>)
            /\ pc' = [pc EXCEPT ![w] = PhaseAfter("ohlc")]
            /\ UNCHANGED failure
       ELSE /\ Raise(w, "get_daily_ohlc")
            /\ UNCHANGED <<history_ohlc, calls>>
    /\ UNCHANGED <<inputVars, prev_calls, flag_set_at, now, shutdown_flag, mainVars, signals, last_run_ts, wake,
                   sleep_duration_seconds, pair, order_ids, position_sizes,
                   market_summary, positions, open_orders, cycles, cycle_starts,
                   honoured, rejects>>

\* line 78: market_summary = backend.get_market_summary(pair)
ReadSummary(w) ==
    /\ Alive /\ pc[w] = "summary"
    /\ \E outcome \in Outcomes, summary \in exchange.summaries :
       IF outcome = "ok"
       THEN /\ market_summary' = [market_summary EXCEPT ![w] = <<summary>>]
            /\ calls' = Log(w, "get_market_summary", <<pair[w], summary>>)
            /\ pc' = [pc EXCEPT ![w] = PhaseAfter("summary")]
            /\ UNCHANGED failure
       ELSE /\ Raise(w, "get_market_summary")
            /\ UNCHANGED <<market_summary, calls>>
    /\ UNCHANGED <<inputVars, prev_calls, flag_set_at, now, shutdown_flag, mainVars, signals, last_run_ts, wake,
                   sleep_duration_seconds, pair, order_ids, position_sizes,
                   history_ohlc, positions, open_orders, cycles, cycle_starts,
                   honoured, rejects>>

\* lines 79-106: the base price and the ladder
Build(w) ==
    /\ Alive /\ pc[w] = "build"
    /\ LET avg_ohlc_price == BasePrice(history_ohlc[w], market_summary[w][1])
           ladder == Positions(avg_ohlc_price, backend(w).level_step_perc,
                               position_sizes[w], backend(w).no_of_levels)
       IN  /\ positions' = [positions EXCEPT ![w] = ladder]
           /\ history_ohlc' = [history_ohlc EXCEPT ![w] =
                                  WithToday(@, market_summary[w][1])]
           /\ calls' = Log(w, "build", <<avg_ohlc_price>>)
           /\ pc' = [pc EXCEPT ![w] = IF ladder = <<>> THEN PhaseAfter("placing")
                                      ELSE PhaseAfter("build")]
    /\ UNCHANGED <<inputVars, prev_calls, flag_set_at, now, shutdown_flag, mainVars, signals, last_run_ts, wake,
                   sleep_duration_seconds, pair, order_ids, position_sizes,
                   market_summary, open_orders, cycles, cycle_starts, honoured,
                   rejects, failure>>

\* lines 109-131: one iteration of the for loop over positions
PlaceOrder(w) ==
    /\ Alive /\ pc[w] = "placing"
    /\ LET position == Head(positions[w])
           level == backend(w).no_of_levels - Len(positions[w]) + 1
           quantity == Quantity(position.size, position.price,
                                backend(w).quantity_precision)
           rest == Tail(positions[w])
           after == IF rest = <<>> THEN PhaseAfter("placing") ELSE "placing"
       IN  IF quantity.raised
           THEN /\ Raise(w, "quantity")
                /\ UNCHANGED <<positions, calls, open_orders, honoured, rejects>>
           ELSE IF TooSmall(quantity, backend(w).min_order_size)
           THEN /\ positions' = [positions EXCEPT ![w] = rest]
                /\ calls' = Log(w, "skip", <<pair[w], position.price, quantity.value>>)
                /\ pc' = [pc EXCEPT ![w] = after]
                /\ UNCHANGED <<open_orders, honoured, rejects, failure>>
           ELSE \E outcome \in Outcomes :
                /\ outcome = "rejected" => rejects[w] < MaxRejects
                /\ rejects' = [rejects EXCEPT ![w] =
                                  IF outcome = "rejected" THEN @ + 1 ELSE @]
                /\ IF outcome = "raise"
                   THEN /\ Raise(w, "place_buy_order")
                        /\ UNCHANGED <<positions, calls, open_orders, honoured>>
                   ELSE /\ positions' = [positions EXCEPT ![w] = rest]
                        /\ calls' = Log(w, "place_buy_order",
                                        <<pair[w], position.price, quantity.value>>)
                        /\ open_orders' = [open_orders EXCEPT ![w] =
                              IF outcome = "ok"
                              THEN @ \cup {[id |-> <<cycles[w] + 1, level>>,
                                            pair |-> pair[w],
                                            price |-> position.price,
                                            quantity |-> quantity.value]}
                              ELSE @]
                        /\ honoured' = [honoured EXCEPT ![w] = @ /\ outcome = "ok"]
                        /\ pc' = [pc EXCEPT ![w] = after]
                        /\ UNCHANGED failure
    /\ UNCHANGED <<inputVars, prev_calls, flag_set_at, now, shutdown_flag, mainVars, signals, last_run_ts, wake,
                   sleep_duration_seconds, pair, order_ids, position_sizes,
                   history_ohlc, market_summary, cycles, cycle_starts>>

\* line 133: last_run_ts = time.time()
RecordRun(w) ==
    /\ Alive /\ pc[w] = "record"
    /\ last_run_ts' = [last_run_ts EXCEPT ![w] = <<now>>]
    /\ cycles' = [cycles EXCEPT ![w] = @ + 1]
    /\ pc' = [pc EXCEPT ![w] = PhaseAfter("record")]
    /\ UNCHANGED <<inputVars, prev_calls, flag_set_at, now, shutdown_flag, mainVars, signals, wake, localVars,
                   open_orders, histVars>>

\* ------------------------------------------------------------------------
\* Time
\* ------------------------------------------------------------------------
\* statements that are not Gateway calls take no time; a sleep returns when
\* its time has come
WorkerUrgent(w) ==
    \/ pc[w] \in {"entry", "build", "record"}
    \/ /\ pc[w] = "loop_top"
       /\ LoopTopTarget(shutdown_flag, last_run_ts[w], now,
                        sleep_duration_seconds[w]) = "list_orders"
             => cycles[w] < MaxCycles
    \/ pc[w] = "sleeping" /\ now >= wake[w]

MainUrgent ==
    \/ mpc = "for"
    \/ mpc = "sleep10" /\ now >= main_wake
    \/ mpc = "joining" /\ (joined = Len(threads)
                           \/ pc[threads[joined + 1]] \in {"stopped", "crashed"})
    \/ mpc = "returned" /\ \A w \in Workers : Finished(w)

Last(seq) == seq[Len(seq)]

InCycle(w) ==
    pc[w] \in {"list_orders", "closing", "balance", "ohlc", "summary", "build",
               "placing", "record"}

Tick ==
    /\ Alive
    /\ now < MaxTime
    /\ ~MainUrgent
    /\ \A w \in Workers : ~WorkerUrgent(w)
    /\ \A w \in Workers : InCycle(w) => now - Last(cycle_starts[w]) < MaxCycleTime
    /\ now' = now + 1
    /\ UNCHANGED <<inputVars, prev_calls, flag_set_at, shutdown_flag, mainVars, signals, pc, last_run_ts, wake,
                   localVars, open_orders, cycles, histVars>>

Next ==
    \/ MainStartNext
    \/ MainWake
    \/ MainJoin
    \/ ProcessExit
    \/ Signal
    \/ Tick
    \/ \E w \in Workers : Entry(w)
    \/ \E w \in Workers : LoopTop(w)
    \/ \E w \in Workers : WakeUp(w)
    \/ \E w \in Workers : ListOrders(w)
    \/ \E w \in Workers : CloseOrder(w)
    \/ \E w \in Workers : ReadBalance(w)
    \/ \E w \in Workers : ReadOhlc(w)
    \/ \E w \in Workers : ReadSummary(w)
    \/ \E w \in Workers : Build(w)
    \/ \E w \in Workers : PlaceOrder(w)
    \/ \E w \in Workers : RecordRun(w)

Spec == Init /\ [][Next]_vars

TypeOK ==
    /\ now \in 0..MaxTime
    /\ shutdown_flag \in BOOLEAN
    /\ mpc \in {"for", "sleep10", "joining", "returned", "exited"}
    /\ \A w \in Workers :
          pc[w] \in {"unstarted", "entry", "loop_top", "sleeping", "list_orders",
                     "closing", "balance", "ohlc", "summary", "build", "placing",
                     "record", "stopped", "crashed"}

\* ------------------------------------------------------------------------
\* Runs of one strategy that differ in the ladder the strategy builds
\* ------------------------------------------------------------------------
OneHour == <<"1", "h">>

\* a ticker with a last traded price of 108 (day mid 106)
Summary108 ==
    [created |-> 0, highPrice |-> Dec(110), lowPrice |-> Dec(98),
     lastTradedPrice |-> Dec(108)]

LadderRuns ==
    { \* the first of two levels is below a minimum order of 5
      [config |-> <<SectionOf("valr", OneHour, 2, Dec(5), Dec(5), 2, Dec(2), Dec(1))>>,
       exchange |-> DefaultExchange],
      \* the first level is 3.30, the minimum order is 3.3
      [config |-> <<SectionOf("luno", OneHour, 2, Dec(5), Rat(33, 10), 2, Dec(2), Dec(1))>>,
       exchange |-> DefaultExchange],
      \* a step of 100 %: the second level has the price 0
      [config |-> <<SectionOf("valr", OneHour, 2, Dec(100), Rat(1, 100), 2, Dec(2), Dec(1))>>,
       exchange |-> DefaultExchange],
      \* a step of 60 %: the third level has a negative price
      [config |-> <<SectionOf("valr", OneHour, 3, Dec(60), Rat(1, 100), 2, Dec(2), Dec(1))>>,
       exchange |-> DefaultExchange],
      \* a step of 0.5 %: the step value is 0
      [config |-> <<SectionOf("luno", OneHour, 3, Rat(1, 2), Rat(1, 100), 2, Dec(2), Dec(1))>>,
       exchange |-> DefaultExchange],
      \* one level, a usable balance of 100.996
      [config |-> <<SectionOf("valr", OneHour, 1, Dec(5), Rat(1, 100), 2, Dec(2), Rat(1, 10))>>,
       exchange |-> [DefaultExchange EXCEPT
                        !.accounts = {[total |-> Rat(100996, 100), reserved |-> Dec(0)]}]],
      \* two cycles, each with one of two tickers
      [config |-> <<SectionOf("valr", <<"3", "s">>, 2, Dec(5), Rat(1, 100), 2, Dec(2), Dec(1))>>,
       exchange |-> [DefaultExchange EXCEPT !.summaries = @ \cup {Summary108}]] }

InitLadder == \E run \in LadderRuns : InitWith(run.config, run.exchange, NoProbe)

SpecLadder == InitLadder /\ [][Next]_vars

\* ------------------------------------------------------------------------
\* The functions of btfd.py applied on their own, to arguments drawn from
\* bounded sets
\* ------------------------------------------------------------------------
\* the longest RESTRUCTURE_TIME string
MaxLen == 3
\* the deepest ladder
MaxLevels == 3
\* the most decimals of quantity
MaxPrecision == 2
\* the most candles the exchange returns
MaxCandles == 2

FnChars == {"0", "1", "2", "3", "4", "5", "s", "m", "h", "d", "|", "x"}
FnStrings == UNION {[1..n -> FnChars] : n \in 0..MaxLen}

FnBalances == {Dec(0), Rat(1, 100), Dec(100), Dec(1000), Rat(10099, 100)}
FnMultiples == {Dec(1), Rat(3, 2), Dec(2), Dec(3)}
FnSteps == {Rat(1, 2), Dec(5), Dec(50), Dec(100)}
FnMinimums == {Rat(1, 100), Rat(33, 10)}
FnBasePrices == {1, 50, 100, 101}

FnLastPrices == {1, 10, 49, 50, 51, 100, 104}
FnSpreads == {0, 6}
FnCandles == {Candle(104, 96, 100, 100), Candle(60, 50, 55, 55), Candle(1, 1, 1, 1),
              Candle(220, 200, 210, 210)}
FnHistories == UNION {[1..n -> FnCandles] : n \in 0..MaxCandles}
FnSummaries ==
    {[created |-> 0, highPrice |-> Dec(last + spread), lowPrice |-> Dec(last - spread),
      lastTradedPrice |-> Dec(last)] : last \in FnLastPrices, spread \in FnSpreads}

FnSections ==
    {SectionOf("valr", <<"1", "h">>, levels, step, minimum, precision, multiple, Dec(1)) :
        levels \in 1..MaxLevels, step \in FnSteps, minimum \in FnMinimums,
        precision \in 0..MaxPrecision, multiple \in FnMultiples}

Probes ==
    {[fn |-> "get_time_in_seconds", args |-> <<str>>, out |-> <<>>] :
        str \in FnStrings}
    \cup {[fn |-> "calculate_position_sizing", args |-> <<balance, levels, multiple>>,
           out |-> <<>>] :
        balance \in FnBalances, levels \in 1..MaxLevels, multiple \in FnMultiples}
    \cup {[fn |-> "base_price", args |-> <<history, summary>>, out |-> <<>>] :
        history \in FnHistories, summary \in FnSummaries}
    \cup {[fn |-> "ladder", args |-> <<balance, price, section>>, out |-> <<>>] :
        balance \in FnBalances, price \in FnBasePrices, section \in FnSections}

\* no strategy is configured; one function is about to be applied
InitFn == \E applied \in Probes : InitWith(<<>>, DefaultExchange, applied)

Returns(result) ==
    /\ probe.out = <<>>
    /\ probe' = [probe EXCEPT !.out = <<result>>]
    /\ UNCHANGED <<config, exchange, prev_calls, now, shutdown_flag, mainVars, signals,
                   pc, last_run_ts, wake, localVars, open_orders, cycles, histVars,
                   flag_set_at>>

\* sleep_duration_seconds = get_time_in_seconds(backend.sleep_duration)
Apply_get_time_in_seconds ==
    /\ probe.fn = "get_time_in_seconds"
    /\ Returns(get_time_in_seconds(probe.args[1]))

\* position_sizes = calculate_position_sizing(balance, no_of_levels, multiple)
Apply_calculate_position_sizing ==
    /\ probe.fn = "calculate_position_sizing"
    /\ Returns(calculate_position_sizing(probe.args[1], probe.args[2], probe.args[3]))

\* lines 79-96: the base price of a history and a market summary
Apply_base_price ==
    /\ probe.fn = "base_price"
    /\ Returns(BasePrice(probe.args[1], probe.args[2]))

\* lines 73 and 102-131: the ladder of a balance and a base price
Apply_ladder ==
    /\ probe.fn = "ladder"
    /\ LET bk == Backend(probe.args[3])
           sizes == calculate_position_sizing(probe.args[1], bk.no_of_levels,
                                              bk.iceberg_multiple)
       IN  Returns(Ladder(probe.args[2], sizes.value, bk))

NextFn ==
    \/ Apply_get_time_in_seconds
    \/ Apply_calculate_position_sizing
    \/ Apply_base_price
    \/ Apply_ladder

SpecFn == InitFn /\ [][NextFn]_vars

\* ------------------------------------------------------------------------
\* Vocabulary of the properties
\* ------------------------------------------------------------------------
GatewayOps == {"get_all_open_order_ids", "close_order", "get_usable_fiat_balance",
               "get_daily_ohlc", "get_market_summary", "place_buy_order"}

\* cancel = 1, size = 2, price = 3, build = 4, place = 5
PhaseRank(op) ==
    CASE op \in {"get_all_open_order_ids", "close_order"} -> 1
      [] op = "get_usable_fiat_balance" -> 2
      [] op \in {"get_daily_ohlc", "get_market_summary"} -> 3
      [] op = "build" -> 4
      [] op \in {"place_buy_order", "skip"} -> 5

Entries(w, ops) == {i \in 1..Len(calls[w]) : calls[w][i].op \in ops}
Count(w, ops) == Cardinality(Entries(w, ops))

\* the ids passed to close_order so far in the cycle, in call order
RECURSIVE ClosedIds(_)
ClosedIds(log) ==
    IF log = <<>> THEN <<>>
    ELSE IF Head(log).op = "close_order" THEN <<Head(log).arg[2]>> \o ClosedIds(Tail(log))
    ELSE ClosedIds(Tail(log))

\* the open orders of the worker's own pair
OwnOrders(w) == {o \in open_orders[w] : o.pair = pair[w]}

\* the worker is between two cycles, having completed at least one
CycleBoundary(w) == pc[w] \in {"loop_top", "sleeping", "stopped"} /\ cycles[w] >= 1

\* everything of a worker that the worker itself reads or writes
WorkerState(w) ==
    <<pc[w], sleep_duration_seconds[w], pair[w], last_run_ts[w], wake[w],
      order_ids[w], position_sizes[w], history_ohlc[w], market_summary[w],
      positions[w], open_orders[w], calls[w], cycles[w], cycle_starts[w],
      honoured[w], rejects[w], failure[w]>>

\* ------------------------------------------------------------------------
\* C1: within a cycle the phases run in the order cancel, size, price,
\* build, place: the calls of a cycle are never out of that order, and
\* before the first placement the cycle has listed the open orders, issued
\* close_order for every id listed, and read the balance, the candles and
\* the ticker and built the ladder exactly once each.
\* ------------------------------------------------------------------------
C1_PhaseOrder ==
    \A w \in Workers :
        /\ \A i, j \in 1..Len(calls[w]) :
              i < j => PhaseRank(calls[w][i].op) <= PhaseRank(calls[w][j].op)
        /\ Count(w, {"place_buy_order", "skip"}) > 0 =>
              /\ calls[w][1].op = "get_all_open_order_ids"
              /\ ClosedIds(calls[w]) = calls[w][1].arg[2]
              /\ Count(w, {"get_all_open_order_ids"}) = 1
              /\ Count(w, {"get_usable_fiat_balance"}) = 1
              /\ Count(w, {"get_daily_ohlc"}) = 1
              /\ Count(w, {"get_market_summary"}) = 1
              /\ Count(w, {"build"}) = 1

C1_Witness ==
    \E w \in Workers :
        /\ pc[w] = "record"
        /\ Count(w, {"close_order"}) >= 2
        /\ Count(w, {"place_buy_order"}) >= 2

\* ------------------------------------------------------------------------
\* C2: one open ladder per strategy.  When no close_order and no
\* place_buy_order of the last completed cycle was rejected, the open
\* orders of the strategy's pair at the cycle boundary are exactly the
\* orders placed in that cycle, and there are at most no_of_levels of them.
\* ------------------------------------------------------------------------
C2_OneLadder ==
    \A w \in Workers :
        (CycleBoundary(w) /\ honoured[w]) =>
            /\ \A o \in OwnOrders(w) : o.id[1] = cycles[w]
            /\ {<<o.price, o.quantity>> : o \in OwnOrders(w)}
                 = {<<calls[w][i].arg[2], calls[w][i].arg[3]>> :
                        i \in Entries(w, {"place_buy_order"})}
            /\ Cardinality(OwnOrders(w)) = Count(w, {"place_buy_order"})
            /\ Cardinality(OwnOrders(w)) <= backend(w).no_of_levels

\* the second cycle has cleaned up after a first cycle that left an order
C2_Witness ==
    \E w \in Workers :
        /\ CycleBoundary(w) /\ honoured[w]
        /\ cycles[w] = 2
        /\ rejects[w] = 1
        /\ Cardinality(OwnOrders(w)) = 2

\* ------------------------------------------------------------------------
\* C4: a worker that finds the flag set at the top of its loop leaves the
\* loop; a worker that has left never calls the Gateway again; and a worker
\* that was waiting in the due check when the flag was set is gone within
\* one polling increment.
\* ------------------------------------------------------------------------
C4_StopsAtNextPoll ==
    /\ [][\A w \in Workers :
             /\ (pc[w] = "loop_top" /\ shutdown_flag /\ pc'[w] # pc[w])
                   => pc'[w] = "stopped"
             /\ pc[w] = "stopped" => (pc'[w] = "stopped" /\ calls'[w] = calls[w])]_vars
    /\ [](\A w \in Workers :
             (/\ shutdown_flag
              /\ pc[w] \in {"loop_top", "sleeping"}
              /\ (last_run_ts[w] = <<>> \/ last_run_ts[w][1] <= flag_set_at[1]))
                => now <= flag_set_at[1] + POLL)

\* a worker that was waiting between two cycles when the flag came has stopped
C4_Witness ==
    \E w \in Workers :
        /\ pc[w] = "stopped"
        /\ cycles[w] >= 1
        /\ last_run_ts[w][1] < flag_set_at[1]

\* ------------------------------------------------------------------------
\* C5: the shutdown flag does not cut a cycle short.  With the flag set, a
\* worker inside a cycle only moves on inside the cycle (or ends on an
\* exception of a call); it is back at the loop top only after it has
\* recorded the run, and by then it has issued every close and has dealt
\* with every level of the ladder.
\* ------------------------------------------------------------------------
C5_CycleFinishes ==
    /\ [][\A w \in Workers :
             (shutdown_flag /\ InCycle(w) /\ pc'[w] # pc[w]) =>
                 \/ pc'[w] \in {"closing", "balance", "ohlc", "summary", "build",
                               "placing", "record", "crashed"}
                 \/ pc[w] = "record" /\ pc'[w] = "loop_top"]_vars
    /\ [](\A w \in Workers :
             (shutdown_flag /\ pc[w] = "record") =>
                 /\ ClosedIds(calls[w]) = calls[w][1].arg[2]
                 /\ Count(w, {"get_usable_fiat_balance"}) = 1
                 /\ Count(w, {"get_daily_ohlc"}) = 1
                 /\ Count(w, {"get_market_summary"}) = 1
                 /\ Count(w, {"place_buy_order", "skip"}) = backend(w).no_of_levels)

\* the flag came after the cycle had started, and the cycle placed its ladder
C5_Witness ==
    \E w \in Workers :
        /\ shutdown_flag
        /\ pc[w] = "record"
        /\ Count(w, {"close_order"}) >= 1
        /\ Count(w, {"place_buy_order"}) = 2

\* ------------------------------------------------------------------------
\* C6: the exception that ends one worker changes nothing of any other
\* worker, of the shutdown flag or of the main thread.
\* ------------------------------------------------------------------------
C6_Isolation ==
    [][\A w \in Workers :
          (pc[w] # "crashed" /\ pc'[w] = "crashed") =>
              /\ shutdown_flag' = shutdown_flag
              /\ mainVars' = mainVars
              /\ \A v \in Workers \ {w} : WorkerState(v)' = WorkerState(v)]_vars

\* the second worker has died on a Gateway call and the first one has
\* started a cycle after that
C6_Witness ==
    /\ Len(config) = 2
    /\ pc[2] = "crashed"
    /\ failure[2][1] \in GatewayOps
    /\ InCycle(1)
    /\ Last(cycle_starts[1]) > failure[2][2]

\* ------------------------------------------------------------------------
\* C3 (as claimed): a signal delivered while a worker is running sets the
\* shutdown flag, whenever it is delivered.
\* ------------------------------------------------------------------------
C3_SignalSetsFlag ==
    (signals > 0 /\ \E w \in Workers : ~Finished(w)) => shutdown_flag

\* ------------------------------------------------------------------------
\* C7 (as claimed): a worker whose Gateway call failed inside a cycle stays
\* alive for its next scheduled cycle.
\* ------------------------------------------------------------------------
C7_WorkerSurvivesFailure ==
    \A w \in Workers :
        (failure[w] # <<>> /\ failure[w][1] \in GatewayOps) => pc[w] # "crashed"

\* ------------------------------------------------------------------------
\* C8 (as claimed): no failure of a single close_order or place_buy_order
\* call ends the cycle: a worker never ends on one of these two calls.
\* ------------------------------------------------------------------------
C8_BestEffort ==
    [][\A w \in Workers :
          (pc[w] \in {"closing", "placing"} /\ pc'[w] # pc[w]) =>
              pc'[w] \in {"closing", "balance", "placing", "record"}]_vars

\* ------------------------------------------------------------------------
\* C9 (as claimed): the timestamp a cycle records is the time at which the
\* cycle began, so that after a cycle shorter than the sleep duration the
\* next cycle starts one sleep duration (give or take one poll) after the
\* previous start.
\* ------------------------------------------------------------------------
C9_MeasuredFromStart ==
    \A w \in Workers :
        /\ last_run_ts[w] # <<>> => last_run_ts[w][1] = cycle_starts[w][cycles[w]]
        /\ (/\ cycles[w] >= 1
            /\ Len(cycle_starts[w]) = cycles[w] + 1
            /\ last_run_ts[w][1] - cycle_starts[w][cycles[w]] < sleep_duration_seconds[w])
              => Last(cycle_starts[w]) - cycle_starts[w][cycles[w]]
                    <= sleep_duration_seconds[w] + POLL

\* ------------------------------------------------------------------------
\* C9 (amended): the timestamp a cycle records is the time at which the
\* cycle ended.  At the loop top, with the flag clear, a cycle starts
\* exactly when there is no timestamp or the time since the end of the
\* previous cycle is at least the sleep duration; so a cycle starts between
\* one sleep duration and one sleep duration plus one poll after the END of
\* the previous one, whatever the previous cycle's Gateway calls took.
\* ------------------------------------------------------------------------
C9_MeasuredFromEnd ==
    /\ [][\A w \in Workers :
             /\ (pc[w] = "loop_top" /\ ~shutdown_flag /\ pc'[w] # pc[w]) =>
                   (pc'[w] = "list_orders" <=>
                       (\/ last_run_ts[w] = <<>>
                        \/ now - last_run_ts[w][1] >= sleep_duration_seconds[w]))
             /\ (pc[w] = "record" /\ pc'[w] # pc[w]) => last_run_ts'[w] = <<now>>]_vars
    /\ [](\A w \in Workers :
             (cycles[w] >= 1 /\ Len(cycle_starts[w]) = cycles[w] + 1) =>
                 /\ last_run_ts[w][1] >= cycle_starts[w][cycles[w]]
                 /\ Last(cycle_starts[w]) - last_run_ts[w][1]
                       >= sleep_duration_seconds[w]
                 /\ Last(cycle_starts[w]) - last_run_ts[w][1]
                       <= sleep_duration_seconds[w] + POLL)

\* a second cycle has started after a first one that took time
C9_Witness ==
    \E w \in Workers :
        /\ cycles[w] = 1
        /\ Len(cycle_starts[w]) = 2
        /\ last_run_ts[w][1] > cycle_starts[w][1]

\* ------------------------------------------------------------------------
\* C10 (as claimed): a section with an unknown backend or a malformed
\* RESTRUCTURE_TIME keeps only its own worker from running: once main is
\* through its loop undisturbed, every other section has a started worker,
\* and the faulty section's worker has never entered its loop.
\* ------------------------------------------------------------------------
GoodSection(w) ==
    /\ config[w].BACKEND \in BACKENDS
    /\ ~get_time_in_seconds(config[w].RESTRUCTURE_TIME).raised

C10_OnlyFaultySectionSkipped ==
    /\ \A w \in Workers :
          ~GoodSection(w) => pc[w] \in {"unstarted", "entry", "crashed"}
    /\ (signals = 0 /\ mpc \in {"returned", "exited"}) =>
          \A w \in Workers : GoodSection(w) => pc[w] # "unstarted"

\* ------------------------------------------------------------------------
\* Vocabulary of the properties of the functions
\* ------------------------------------------------------------------------
\* the function fn has been applied; its arguments and its result
Applied(fn) == probe.fn = fn /\ probe.out # <<>>
Arg(k) == probe.args[k]
Result == probe.out[1]

RECURSIVE Number(_)
\* the number a sequence of digits denotes
Number(digits) ==
    IF digits = <<>> THEN 0
    ELSE DigitVal(Head(digits)) * Pow10(Len(digits) - 1) + Number(Tail(digits))

Seconds(unit) ==
    CASE unit = "s" -> 1 [] unit = "m" -> 60 [] unit = "h" -> 3600 [] unit = "d" -> 86400

\* str begins with n >= 1 digits followed by one of s, m, h, d
DurationToken(str, n) ==
    /\ n \in 1..(Len(str) - 1)
    /\ \A i \in 1..n : str[i] \in DigitChars
    /\ str[n + 1] \in {"s", "m", "h", "d"}

\* the rounded mean of the day mids, today's candle included
HistoricalAverage(history, summary) ==
    LET days == WithToday(history, summary) IN
    round(RDiv(RSum([k \in 1..Len(days) |-> DayMid(days[k])]), Dec(Len(days))))

\* ------------------------------------------------------------------------
\* C12: quantity truncation never overspends.  For every level of a ladder
\* that is passed to place_buy_order, quantity * price <= allocation, and
\* the quantity is the allocation over the price cut down to a multiple of
\* 10^-quantity_precision: quantity <= allocation / price < quantity + one
\* unit of the last decimal.
\* ------------------------------------------------------------------------
C12_NeverOverspends ==
    Applied("ladder") =>
        \A i \in DOMAIN Result :
            Result[i].fate = "placed" =>
                LET level == Result[i]
                    scale == Pow10(Arg(3).QUANTITY_PRECISION)
                    raw == RDiv(level.size, Dec(level.price))
                IN  /\ RLeq(RMul(level.quantity, Dec(level.price)), level.size)
                    /\ RMul(level.quantity, Dec(scale))[2] = 1
                    /\ RLeq(level.quantity, raw)
                    /\ RLess(raw, RAdd(level.quantity, Rat(1, scale)))

\* a level was placed whose quantity lost something in the truncation
C12_Witness ==
    /\ Applied("ladder")
    /\ Arg(3).QUANTITY_PRECISION = 2
    /\ Arg(3).ICEBERG_LEVELS = 3
    /\ \A i \in DOMAIN Result : Result[i].fate = "placed"
    /\ \E i \in DOMAIN Result :
          RLess(RMul(Result[i].quantity, Dec(Result[i].price)), Result[i].size)

\* ------------------------------------------------------------------------
\* C13 (as claimed): the base price is strictly below the last traded
\* price, and when the rounded historical average is at or above the last
\* traded price it is round(0.99 * last traded price).
\* ------------------------------------------------------------------------
C13_ClampBelowMarket ==
    Applied("base_price") =>
        LET last_traded_price == Arg(2).lastTradedPrice IN
        /\ RLeq(last_traded_price, Dec(HistoricalAverage(Arg(1), Arg(2))))
              => Result = round(RMul(Rat(99, 100), last_traded_price))
        /\ RLess(Dec(Result), last_traded_price)

\* ------------------------------------------------------------------------
\* C15 (as claimed): for every balance >= 0, levels >= 1 and multiple > 1
\* the sizing returns `levels` allocations, each strictly smaller than the
\* next, allocation i (from 0) being balance / (1 + m + ... + m^(levels-1))
\* * m^i, stated here with the closed form of the sum:
\* allocation * (m^levels - 1) = balance * m^i * (m - 1).
\* ------------------------------------------------------------------------
GeometricShares(allocations, balance, levels, multiple) ==
    /\ Len(allocations) = levels
    /\ \A i \in 1..levels :
          RMul(allocations[i], RSub(RPow(multiple, levels), Dec(1)))
            = RMul(RMul(balance, RPow(multiple, i - 1)), RSub(multiple, Dec(1)))

C15_StrictlyIncreasing ==
    (Applied("calculate_position_sizing") /\ RLess(Dec(1), Arg(3))) =>
        /\ ~Result.raised
        /\ GeometricShares(Result.value, Arg(1), Arg(2), Arg(3))
        /\ \A i \in 1..(Arg(2) - 1) : RLess(Result.value[i], Result.value[i + 1])

\* ------------------------------------------------------------------------
\* C15 (amended): for every balance >= 0, levels >= 1 and multiple > 1 the
\* sizing returns `levels` allocations with the geometric shares; for a
\* balance > 0 each allocation is strictly smaller than the next, for a
\* balance of 0 every allocation is 0.
\* ------------------------------------------------------------------------
C15_IncreasingForPositiveBalance ==
    (Applied("calculate_position_sizing") /\ RLess(Dec(1), Arg(3))) =>
        /\ ~Result.raised
        /\ GeometricShares(Result.value, Arg(1), Arg(2), Arg(3))
        /\ RLess(Dec(0), Arg(1)) =>
              \A i \in 1..(Arg(2) - 1) : RLess(Result.value[i], Result.value[i + 1])
        /\ Arg(1) = Dec(0) => \A i \in 1..Arg(2) : Result.value[i] = Dec(0)

\* 1000 over three levels with a multiple of 2: 1000/7, 2000/7, 4000/7
C15_Witness ==
    /\ Applied("calculate_position_sizing")
    /\ probe.args = <<Dec(1000), 3, Dec(2)>>
    /\ Result.value = <<Rat(1000, 7), Rat(2000, 7), Rat(4000, 7)>>

\* ------------------------------------------------------------------------
\* C16: get_time_in_seconds returns digits * seconds-of-the-unit for every
\* string that begins with digits followed by s, m, h or d, whatever comes
\* after the unit, and fails without a value for every other string.
\* ------------------------------------------------------------------------
C16_ParsingTotal ==
    Applied("get_time_in_seconds") =>
        LET str == Arg(1) IN
        /\ IF \E n \in 1..Len(str) : DurationToken(str, n)
           THEN \A n \in 1..Len(str) :
                    DurationToken(str, n) =>
                        /\ ~Result.raised
                        /\ Result.value = Number(SubSeq(str, 1, n)) * Seconds(str[n + 1])
           ELSE Result.raised
        /\ str = <<"4", "5", "s">> => Result.value = 45
        /\ str = <<"3", "0", "m">> => Result.value = 1800
        /\ str = <<"1", "h">> => Result.value = 3600
        /\ str = <<"2", "d">> => Result.value = 172800

\* two days, with something after the unit
C16_Witness ==
    /\ Applied("get_time_in_seconds")
    /\ Arg(1) = <<"2", "d", "x">>
    /\ ~Result.raised
    /\ Result.value = 172800

\* ------------------------------------------------------------------------
\* Vocabulary of the properties of the ladder of a cycle
\* ------------------------------------------------------------------------
RECURSIVE Select(_, _)
\* the entries of a log with one of the operations ops, in order
Select(log, ops) ==
    IF log = <<>> THEN <<>>
    ELSE IF Head(log).op \in ops THEN <<Head(log)>> \o Select(Tail(log), ops)
    ELSE Select(Tail(log), ops)

\* what the placing loop has done so far, level by level: entry k is
\* level k, placed or skipped, with <<pair, price, quantity>>
Levels(w) == Select(calls[w], {"place_buy_order", "skip"})

\* the orders passed to place_buy_order, in order
Submitted(log) == Select(log, {"place_buy_order"})

\* what the exchange answered to the reads of a cycle
Reads(log) == Select(log, {"get_usable_fiat_balance", "get_daily_ohlc",
                           "get_market_summary"})

RECURSIVE Committed(_)
\* the sum of quantity * price over a sequence of orders
Committed(orders) ==
    IF orders = <<>> THEN Dec(0)
    ELSE RAdd(RMul(Head(orders).arg[3], Dec(Head(orders).arg[2])),
              Committed(Tail(orders)))

\* the open orders of the pairs that are not the worker's
OtherOrders(w) == {o \in open_orders[w] : o.pair # get_pair(backend(w))}

\* the step of the worker has skipped a level
SkipStep(w) ==
    /\ Len(calls'[w]) = Len(calls[w]) + 1
    /\ Last(calls'[w]).op = "skip"

\* ------------------------------------------------------------------------
\* C11: minimum filter.  Every order passed to place_buy_order has a
\* quantity >= min_order_size, so a level with a quantity below it is
\* skipped; a placed level commits no more than its own allocation; the
\* step that skips a level leaves the allocations and the account as they
\* are and goes on with the next level, and a cycle that reaches its end
\* has dealt with every level.
\* ------------------------------------------------------------------------
C11_MinimumFilter ==
    /\ [](\A w \in Workers :
             /\ \A k \in 1..Len(Levels(w)) :
                   LET level == Levels(w)[k] IN
                   /\ level.op = "place_buy_order" =>
                         /\ RLeq(backend(w).min_order_size, level.arg[3])
                         /\ RLeq(RMul(level.arg[3], Dec(level.arg[2])),
                                 position_sizes[w][k])
                   /\ RLess(level.arg[3], backend(w).min_order_size) =>
                         level.op = "skip"
             /\ pc[w] = "record" => Len(Levels(w)) = backend(w).no_of_levels)
    /\ [][\A w \in Workers :
             SkipStep(w) =>
                 /\ position_sizes'[w] = position_sizes[w]
                 /\ open_orders'[w] = open_orders[w]
                 /\ positions'[w] = Tail(positions[w])
                 /\ pc'[w] = IF Tail(positions[w]) = <<>> THEN "record" ELSE "placing"]_vars

\* the first level was skipped and the second one placed
C11_Witness ==
    \E w \in Workers :
        /\ pc[w] = "record"
        /\ Len(Levels(w)) = 2
        /\ Levels(w)[1].op = "skip"
        /\ Levels(w)[2].op = "place_buy_order"

\* ------------------------------------------------------------------------
\* C14: ladder monotonic pricing.  Level k (from 0) of a cycle has the
\* price base_price - k * floor(base_price * level_step_perc / 100); the
\* prices of the ladder and the prices passed to place_buy_order, in the
\* order of the calls, never increase.
\* ------------------------------------------------------------------------
C14_PricesNonIncreasing ==
    \A w \in Workers :
        /\ \A i, j \in 1..Len(positions[w]) :
              i < j => positions[w][i].price >= positions[w][j].price
        /\ \A i, j \in 1..Len(Submitted(calls[w])) :
              i < j => Submitted(calls[w])[i].arg[2] >= Submitted(calls[w])[j].arg[2]
        /\ \A b \in Entries(w, {"build"}) :
              \A k \in 1..Len(Levels(w)) :
                  Levels(w)[k].arg[2] =
                      calls[w][b].arg[1]
                        - (k - 1) * ((calls[w][b].arg[1] * backend(w).level_step_perc[1])
                                       \div (backend(w).level_step_perc[2] * 100))

\* two orders were placed, the second at a lower price
C14_Witness ==
    \E w \in Workers :
        /\ pc[w] = "record"
        /\ Len(Submitted(calls[w])) = 2
        /\ Submitted(calls[w])[1].arg[2] > Submitted(calls[w])[2].arg[2]

\* ------------------------------------------------------------------------
\* C17 (as claimed): every order passed to place_buy_order has a price > 0
\* and a quantity > 0, and no cycle fails inside its ladder: a level whose
\* price is not positive is dropped without an error.
\* ------------------------------------------------------------------------
C17_PositiveOrders ==
    \A w \in Workers :
        /\ \A k \in 1..Len(Submitted(calls[w])) :
              /\ Submitted(calls[w])[k].arg[2] > 0
              /\ RLess(Dec(0), Submitted(calls[w])[k].arg[3])
        /\ failure[w] # <<>> => failure[w][1] # "quantity"

\* ------------------------------------------------------------------------
\* C18 (as claimed): the orders passed to place_buy_order in a cycle sum
\* up (quantity * price) to no more than the usable balance the Gateway
\* returned in that cycle.
\* ------------------------------------------------------------------------
C18_WithinUsable ==
    \A w \in Workers :
        \A i \in Entries(w, {"get_usable_fiat_balance"}) :
            RLeq(Committed(Submitted(calls[w])), calls[w][i].arg[2])

\* ------------------------------------------------------------------------
\* C19: a worker touches only its own pair.  The listing is asked for the
\* worker's pair, every id passed to close_order is one the listing of the
\* same cycle returned and is not the id of an order of another pair,
\* every order placed carries the worker's pair, and no step changes the
\* open orders of the other pairs.
\* ------------------------------------------------------------------------
C19_OwnPairOnly ==
    /\ [](\A w \in Workers :
             /\ \A i \in Entries(w, {"get_all_open_order_ids"}) :
                   calls[w][i].arg[1] = get_pair(backend(w))
             /\ \A i \in Entries(w, {"close_order"}) :
                   /\ \E k \in 1..Len(calls[w][1].arg[2]) :
                         calls[w][1].arg[2][k] = calls[w][i].arg[2]
                   /\ \A o \in InitialOrders :
                         o.id = calls[w][i].arg[2] => o.pair = get_pair(backend(w))
             /\ \A i \in Entries(w, {"place_buy_order"}) :
                   calls[w][i].arg[1] = get_pair(backend(w))
             /\ OtherOrders(w) = {o \in InitialOrders : o.pair # get_pair(backend(w))})
    /\ [][\A w \in Workers : OtherOrders(w)' = OtherOrders(w)]_vars

\* a cycle has closed an order and placed its orders, with an order of
\* another pair open on the account
C19_Witness ==
    \E w \in Workers :
        /\ pc[w] = "record"
        /\ Count(w, {"close_order"}) >= 1
        /\ Count(w, {"place_buy_order"}) >= 1
        /\ OtherOrders(w) # {}

\* ------------------------------------------------------------------------
\* C20: no state is carried from one cycle to the next.  A cycle that got
\* the same answers to its reads (usable balance, candles, market summary)
\* as the cycle before it has passed the same orders, in the same order,
\* to place_buy_order.
\* ------------------------------------------------------------------------
C20_NoCarryOver ==
    \A w \in Workers :
        (/\ pc[w] = "record"
         /\ prev_calls[w] # <<>>
         /\ Reads(calls[w]) = Reads(prev_calls[w]))
            => Submitted(calls[w]) = Submitted(prev_calls[w])

\* the second of two cycles with the same answers, the ticker at 108
C20_Witness ==
    \E w \in Workers :
        /\ pc[w] = "record"
        /\ prev_calls[w] # <<>>
        /\ Reads(calls[w]) = Reads(prev_calls[w])
        /\ Len(Submitted(calls[w])) = 2
        /\ market_summary[w] = <<Summary108>>

====
